---- MODULE Spec2Model ----
(***************************************************************************)
(* Explicit-free-list memory allocator (src/memoryAllocator.c).            *)
(*                                                                         *)
(* Memory is a sparse map from byte addresses of 8-byte words to the word  *)
(* stored there; a word of a mapped region that was never written reads 0  *)
(* (the page provider hands out zero-filled pages).  Every helper of the   *)
(* source is an operator over a heap record                                *)
(*   [mem, nextFree, basePage, regions, unmaps]                            *)
(* and returns the heap its statements leave behind, in statement order.   *)
(***************************************************************************)
EXTENDS Integers, Naturals, Sequences, FiniteSets, TLC

(* ---------------- bounds of the exploration ---------------- *)

\* live allocations the client holds at once
MaxLive == 3
\* address slots the page provider can hand out
MaxRegions == 2
\* mem_map calls followed inside one mm_malloc call
MaxRetry == 2
\* public calls the client makes after mm_init
MaxCalls == 6
\* request sizes the client passes to mm_malloc
Requests == {0, 1, 20, 40900}

(* ---------------- constants of the source ---------------- *)

NULL == 0
ALIGNMENT == 16
SIZEOF_WORD == 8
PAGERATIO == 10
mem_pagesize == 4096
PAGESIZE == mem_pagesize
OVERHEAD == SIZEOF_WORD + SIZEOF_WORD
MINSIZE == SIZEOF_WORD + SIZEOF_WORD
PAGEOVERHEAD == (2 * SIZEOF_WORD) + (2 * SIZEOF_WORD)

\* the page provider places region i at i * SlotStride (page aligned)
SlotStride == 1048576
SlotBase(i) == i * SlotStride

(* ---------------- macros ---------------- *)

\* size_t arithmetic is modulo 2^64; the model keeps WordBits bits of it, more
\* than every address and size of the mapped regions needs
WordBits == 24
SIZE_MAX == 2 ^ WordBits - 1
Wrap(x) == x % (SIZE_MAX + 1)

\* (size + 15) & ~15
ALIGN(size) == (Wrap(size + (ALIGNMENT - 1)) \div ALIGNMENT) * ALIGNMENT

\* (size + pagesize - 1) & ~(pagesize - 1)
PAGEALIGN(size) == (Wrap(size + (mem_pagesize - 1)) \div mem_pagesize) * mem_pagesize

GET(m, p) == IF p \in DOMAIN m THEN m[p] ELSE 0
PUT(m, p, val) == [a \in (DOMAIN m) \cup {p} |-> IF a = p THEN val ELSE m[a]]

\* size | alloc, alloc being 0 or 1
PACK(size, alloc) == IF size % 2 = 1 THEN size ELSE size + alloc

\* word & 0x1, word & ~0xF
GET_ALLOC(w) == w % 2
GET_SIZE(w) == w - (w % 16)

HDRP(bp) == bp - SIZEOF_WORD
FTRP(m, bp) == bp + GET_SIZE(GET(m, HDRP(bp))) - OVERHEAD
NEXT_BLKP(m, bp) == bp + GET_SIZE(GET(m, HDRP(bp)))
PREV_BLKP(m, bp) == bp - GET_SIZE(GET(m, bp - OVERHEAD))

\* struct eflNode { prev; next; }
PrevField(node) == node
NextField(node) == node + SIZEOF_WORD

(* ---------------- the free list ---------------- *)

\* addEFLNode without "nextFree->prev = newFree"
addEFLNode_noBackLink(h, newFree) ==
  IF h.nextFree # NULL
  THEN LET m1 == PUT(h.mem, PrevField(newFree), NULL)
           m2 == PUT(m1, NextField(newFree), h.nextFree)
       IN  [h EXCEPT !.mem = m2, !.nextFree = newFree]
  ELSE LET m1 == PUT(h.mem, NextField(newFree), NULL)
           m2 == PUT(m1, PrevField(newFree), NULL)
       IN  [h EXCEPT !.mem = m2, !.nextFree = newFree]

addEFLNode(h, newFree) ==
  IF h.nextFree # NULL
  THEN LET m1 == PUT(h.mem, PrevField(newFree), NULL)
           m2 == PUT(m1, NextField(newFree), h.nextFree)
           m3 == PUT(m2, PrevField(h.nextFree), newFree)
       IN  [h EXCEPT !.mem = m3, !.nextFree = newFree]
  ELSE LET m1 == PUT(h.mem, NextField(newFree), NULL)
           m2 == PUT(m1, PrevField(newFree), NULL)
       IN  [h EXCEPT !.mem = m2, !.nextFree = newFree]

removeEFLNode(h, oldFree) ==
  LET prev == GET(h.mem, PrevField(oldFree))
      next == GET(h.mem, NextField(oldFree))
  IN  IF prev # NULL /\ next # NULL
      THEN LET m1 == PUT(h.mem, NextField(prev), next)
               m2 == PUT(m1, PrevField(next), prev)
           IN  [h EXCEPT !.mem = m2]
      ELSE IF prev # NULL
      THEN [h EXCEPT !.mem = PUT(h.mem, NextField(prev), NULL)]
      ELSE IF next # NULL
      THEN [h EXCEPT !.mem = PUT(h.mem, PrevField(next), NULL), !.nextFree = next]
      ELSE [h EXCEPT !.nextFree = NULL]

(* ---------------- the page provider ---------------- *)

RegionOf(regions, a) == {r \in regions : r.base <= a /\ a < r.base + r.len}

\* results mem_map(bytes) may give: NULL, or the base of an unused slot
mem_map(regions, bytes) ==
  {NULL} \cup {SlotBase(i) : i \in {j \in 1..MaxRegions :
                   bytes <= SlotStride /\ \A r \in regions : r.base # SlotBase(j)}}

\* mem_unmap(start, len): the region is gone and so are its words
mem_unmap(h, start, len) ==
  [h EXCEPT !.regions = {r \in h.regions : r.base # start},
            !.mem = [a \in {x \in DOMAIN h.mem : ~(start <= x /\ x < start + len)}
                       |-> h.mem[a]],
            !.unmaps = Append(h.unmaps, [base |-> start, len |-> len])]

(* ---------------- extend ---------------- *)

\* the page ratio the allocator is built with: PAGERATIO, or, where the ratio is
\* the subject, another value of the #define
VARIABLE pageRatio

\* the byte count with the ratio applied before the rounding to pages
ExtendBytes_ratioFirst(size) ==
  IF (size * pageRatio) % PAGESIZE # 0 THEN PAGEALIGN(size * pageRatio)
  ELSE size * pageRatio

\* the byte count without "size *= PAGERATIO"
ExtendBytes_noRatio(size) ==
  IF size % PAGESIZE # 0 THEN PAGEALIGN(size) ELSE size

\* the byte count extend(size) asks mem_map for
ExtendBytes(size) ==
  Wrap((IF size % PAGESIZE # 0 THEN PAGEALIGN(size) ELSE size) * pageRatio)

\* extend without the half-alignment padding in front of the prologue
extend_noPadding(h, size, pageAdr) ==
  LET bytes == ExtendBytes(size) IN
  IF pageAdr = NULL THEN h
  ELSE
    LET h0 == [h EXCEPT !.regions = h.regions \cup {[base |-> pageAdr, len |-> bytes]}]
        m1 == PUT(h0.mem, pageAdr, PACK(OVERHEAD, 1))
        m2 == PUT(m1, pageAdr + SIZEOF_WORD, PACK(OVERHEAD, 1))
        m3 == PUT(m2, pageAdr + bytes - SIZEOF_WORD, PACK(0, 1))
        m4 == PUT(m3, pageAdr + OVERHEAD, PACK(bytes - PAGEOVERHEAD, 0))
        m5 == PUT(m4, FTRP(m4, pageAdr + OVERHEAD + SIZEOF_WORD), PACK(bytes - PAGEOVERHEAD, 0))
        h1 == addEFLNode([h0 EXCEPT !.mem = m5], pageAdr + OVERHEAD + SIZEOF_WORD)
    IN  IF h1.basePage = NULL THEN [h1 EXCEPT !.basePage = pageAdr] ELSE h1

\* extend without "if (pageAdr == NULL) return"
extend_noNullCheck(h, size, pageAdr) ==
  LET bytes == ExtendBytes(size)
      h0 == IF pageAdr = NULL THEN h
            ELSE [h EXCEPT !.regions = h.regions \cup {[base |-> pageAdr, len |-> bytes]}]
      m1 == PUT(h0.mem, pageAdr + ALIGNMENT \div 2, PACK(OVERHEAD, 1))
      m2 == PUT(m1, pageAdr + ALIGNMENT \div 2 + SIZEOF_WORD, PACK(OVERHEAD, 1))
      m3 == PUT(m2, pageAdr + bytes - SIZEOF_WORD, PACK(0, 1))
      m4 == PUT(m3, pageAdr + ALIGNMENT \div 2 + OVERHEAD, PACK(bytes - PAGEOVERHEAD, 0))
      m5 == PUT(m4, FTRP(m4, pageAdr + OVERHEAD + SIZEOF_WORD), PACK(bytes - PAGEOVERHEAD, 0))
      h1 == addEFLNode([h0 EXCEPT !.mem = m5], pageAdr + PAGEOVERHEAD)
  IN  IF h1.basePage = NULL THEN [h1 EXCEPT !.basePage = pageAdr] ELSE h1

\* extend(size), pageAdr being what mem_map(ExtendBytes(size)) returned
extend(h, size, pageAdr) ==
  LET bytes == ExtendBytes(size) IN
  IF pageAdr = NULL THEN h
  ELSE
    LET h0 == [h EXCEPT !.regions = h.regions \cup {[base |-> pageAdr, len |-> bytes]}]
        m1 == PUT(h0.mem, pageAdr + ALIGNMENT \div 2, PACK(OVERHEAD, 1))
        m2 == PUT(m1, pageAdr + ALIGNMENT \div 2 + SIZEOF_WORD, PACK(OVERHEAD, 1))
        m3 == PUT(m2, pageAdr + bytes - SIZEOF_WORD, PACK(0, 1))
        m4 == PUT(m3, pageAdr + ALIGNMENT \div 2 + OVERHEAD, PACK(bytes - PAGEOVERHEAD, 0))
        m5 == PUT(m4, FTRP(m4, pageAdr + OVERHEAD + SIZEOF_WORD), PACK(bytes - PAGEOVERHEAD, 0))
        h1 == addEFLNode([h0 EXCEPT !.mem = m5], pageAdr + PAGEOVERHEAD)
    IN  IF h1.basePage = NULL THEN [h1 EXCEPT !.basePage = pageAdr] ELSE h1

(* ---------------- setAllocated ---------------- *)

\* setAllocated that splits whenever a header and a footer fit in the remainder
setAllocated_splitAtOverhead(h, bp, size) ==
  LET available == GET_SIZE(GET(h.mem, HDRP(bp))) IN
  IF available - size >= OVERHEAD
  THEN LET m1 == PUT(h.mem, HDRP(bp), PACK(size, 1))
           m2 == PUT(m1, FTRP(m1, bp), PACK(size, 1))
           h1 == removeEFLNode([h EXCEPT !.mem = m2], bp)
           nb == NEXT_BLKP(h1.mem, bp)
           m3 == PUT(h1.mem, HDRP(nb), PACK(available - size, 0))
           m4 == PUT(m3, FTRP(m3, nb), PACK(available - size, 0))
       IN  addEFLNode([h1 EXCEPT !.mem = m4], nb)
  ELSE LET m1 == PUT(h.mem, HDRP(bp), PACK(available, 1))
           m2 == PUT(m1, FTRP(m1, bp), PACK(available, 1))
       IN  removeEFLNode([h EXCEPT !.mem = m2], bp)

\* setAllocated that never splits: the block keeps its whole size
setAllocated_noSplit(h, bp, size) ==
  LET available == GET_SIZE(GET(h.mem, HDRP(bp)))
      m1 == PUT(h.mem, HDRP(bp), PACK(available, 1))
      m2 == PUT(m1, FTRP(m1, bp), PACK(available, 1))
  IN  removeEFLNode([h EXCEPT !.mem = m2], bp)

\* setAllocated that gives the remainder of a split the whole old size
setAllocated_fullRemainder(h, bp, size) ==
  LET available == GET_SIZE(GET(h.mem, HDRP(bp))) IN
  IF available - size >= PAGEOVERHEAD
  THEN LET m1 == PUT(h.mem, HDRP(bp), PACK(size, 1))
           m2 == PUT(m1, FTRP(m1, bp), PACK(size, 1))
           h1 == removeEFLNode([h EXCEPT !.mem = m2], bp)
           nb == NEXT_BLKP(h1.mem, bp)
           m3 == PUT(h1.mem, HDRP(nb), PACK(available, 0))
           m4 == PUT(m3, FTRP(m3, nb), PACK(available, 0))
       IN  addEFLNode([h1 EXCEPT !.mem = m4], nb)
  ELSE LET m1 == PUT(h.mem, HDRP(bp), PACK(available, 1))
           m2 == PUT(m1, FTRP(m1, bp), PACK(available, 1))
       IN  removeEFLNode([h EXCEPT !.mem = m2], bp)

setAllocated(h, bp, size) ==
  LET available == GET_SIZE(GET(h.mem, HDRP(bp))) IN
  IF available - size >= PAGEOVERHEAD
  THEN LET m1 == PUT(h.mem, HDRP(bp), PACK(size, 1))
           m2 == PUT(m1, FTRP(m1, bp), PACK(size, 1))
           h1 == removeEFLNode([h EXCEPT !.mem = m2], bp)
           nb == NEXT_BLKP(h1.mem, bp)
           m3 == PUT(h1.mem, HDRP(nb), PACK(available - size, 0))
           m4 == PUT(m3, FTRP(m3, nb), PACK(available - size, 0))
       IN  addEFLNode([h1 EXCEPT !.mem = m4], nb)
  ELSE LET m1 == PUT(h.mem, HDRP(bp), PACK(available, 1))
           m2 == PUT(m1, FTRP(m1, bp), PACK(available, 1))
       IN  removeEFLNode([h EXCEPT !.mem = m2], bp)

(* ---------------- coalesce ---------------- *)

\* coalesce that, merging with a free previous block only, keeps the size of bp
coalesce_prevSizeLost(h, bp) ==
  LET m == h.mem
      prevAlloc == GET_ALLOC(GET(m, FTRP(m, PREV_BLKP(m, bp))))
      nextAlloc == GET_ALLOC(GET(m, HDRP(NEXT_BLKP(m, bp))))
      size == GET_SIZE(GET(m, HDRP(bp)))
  IN  IF prevAlloc = 1 /\ nextAlloc = 1
      THEN [heap |-> addEFLNode(h, bp), bp |-> bp]
      ELSE IF prevAlloc = 1 /\ nextAlloc = 0
      THEN LET size2 == size + GET_SIZE(GET(m, HDRP(NEXT_BLKP(m, bp))))
               h1 == removeEFLNode(h, NEXT_BLKP(m, bp))
               m1 == PUT(h1.mem, HDRP(bp), PACK(size2, 0))
               m2 == PUT(m1, FTRP(m1, bp), PACK(size2, 0))
           IN  [heap |-> addEFLNode([h1 EXCEPT !.mem = m2], bp), bp |-> bp]
      ELSE IF prevAlloc = 0 /\ nextAlloc = 1
      THEN LET size2 == size
               m1 == PUT(m, FTRP(m, bp), PACK(size2, 0))
               m2 == PUT(m1, HDRP(PREV_BLKP(m1, bp)), PACK(size2, 0))
           IN  [heap |-> [h EXCEPT !.mem = m2], bp |-> PREV_BLKP(m2, bp)]
      ELSE LET size2 == size + GET_SIZE(GET(m, HDRP(PREV_BLKP(m, bp))))
                             + GET_SIZE(GET(m, HDRP(NEXT_BLKP(m, bp))))
               h1 == removeEFLNode(h, NEXT_BLKP(m, bp))
               m1 == PUT(h1.mem, HDRP(PREV_BLKP(h1.mem, bp)), PACK(size2, 0))
               m2 == PUT(m1, FTRP(m1, PREV_BLKP(m1, bp)), PACK(size2, 0))
           IN  [heap |-> [h1 EXCEPT !.mem = m2], bp |-> PREV_BLKP(m2, bp)]

\* coalesce that moves a free previous block to the head of the free list
coalesce_reinsertPrev(h, bp) ==
  LET m == h.mem
      prevAlloc == GET_ALLOC(GET(m, FTRP(m, PREV_BLKP(m, bp))))
      nextAlloc == GET_ALLOC(GET(m, HDRP(NEXT_BLKP(m, bp))))
      size == GET_SIZE(GET(m, HDRP(bp)))
  IN  IF prevAlloc = 1 /\ nextAlloc = 1
      THEN [heap |-> addEFLNode(h, bp), bp |-> bp]
      ELSE IF prevAlloc = 1 /\ nextAlloc = 0
      THEN LET size2 == size + GET_SIZE(GET(m, HDRP(NEXT_BLKP(m, bp))))
               h1 == removeEFLNode(h, NEXT_BLKP(m, bp))
               m1 == PUT(h1.mem, HDRP(bp), PACK(size2, 0))
               m2 == PUT(m1, FTRP(m1, bp), PACK(size2, 0))
           IN  [heap |-> addEFLNode([h1 EXCEPT !.mem = m2], bp), bp |-> bp]
      ELSE IF prevAlloc = 0 /\ nextAlloc = 1
      THEN LET size2 == size + GET_SIZE(GET(m, HDRP(PREV_BLKP(m, bp))))
               m1 == PUT(m, FTRP(m, bp), PACK(size2, 0))
               m2 == PUT(m1, HDRP(PREV_BLKP(m1, bp)), PACK(size2, 0))
               prev == PREV_BLKP(m2, bp)
           IN  [heap |-> addEFLNode(removeEFLNode([h EXCEPT !.mem = m2], prev), prev),
                bp |-> prev]
      ELSE LET size2 == size + GET_SIZE(GET(m, HDRP(PREV_BLKP(m, bp))))
                             + GET_SIZE(GET(m, HDRP(NEXT_BLKP(m, bp))))
               h1 == removeEFLNode(h, NEXT_BLKP(m, bp))
               m1 == PUT(h1.mem, HDRP(PREV_BLKP(h1.mem, bp)), PACK(size2, 0))
               m2 == PUT(m1, FTRP(m1, PREV_BLKP(m1, bp)), PACK(size2, 0))
           IN  [heap |-> [h1 EXCEPT !.mem = m2], bp |-> PREV_BLKP(m2, bp)]

\* coalesce that never looks at the next block
coalesce_ignoreNext(h, bp) ==
  LET m == h.mem
      prevAlloc == GET_ALLOC(GET(m, FTRP(m, PREV_BLKP(m, bp))))
      size == GET_SIZE(GET(m, HDRP(bp)))
  IN  IF prevAlloc = 1
      THEN [heap |-> addEFLNode(h, bp), bp |-> bp]
      ELSE LET size2 == size + GET_SIZE(GET(m, HDRP(PREV_BLKP(m, bp))))
               m1 == PUT(m, FTRP(m, bp), PACK(size2, 0))
               m2 == PUT(m1, HDRP(PREV_BLKP(m1, bp)), PACK(size2, 0))
           IN  [heap |-> [h EXCEPT !.mem = m2], bp |-> PREV_BLKP(m2, bp)]

\* the heap after coalesce(bp) and the block pointer it returns
coalesce(h, bp) ==
  LET m == h.mem
      prevAlloc == GET_ALLOC(GET(m, FTRP(m, PREV_BLKP(m, bp))))
      nextAlloc == GET_ALLOC(GET(m, HDRP(NEXT_BLKP(m, bp))))
      size == GET_SIZE(GET(m, HDRP(bp)))
  IN  IF prevAlloc = 1 /\ nextAlloc = 1
      THEN [heap |-> addEFLNode(h, bp), bp |-> bp]
      ELSE IF prevAlloc = 1 /\ nextAlloc = 0
      THEN LET size2 == size + GET_SIZE(GET(m, HDRP(NEXT_BLKP(m, bp))))
               h1 == removeEFLNode(h, NEXT_BLKP(m, bp))
               m1 == PUT(h1.mem, HDRP(bp), PACK(size2, 0))
               m2 == PUT(m1, FTRP(m1, bp), PACK(size2, 0))
           IN  [heap |-> addEFLNode([h1 EXCEPT !.mem = m2], bp), bp |-> bp]
      ELSE IF prevAlloc = 0 /\ nextAlloc = 1
      THEN LET size2 == size + GET_SIZE(GET(m, HDRP(PREV_BLKP(m, bp))))
               m1 == PUT(m, FTRP(m, bp), PACK(size2, 0))
               m2 == PUT(m1, HDRP(PREV_BLKP(m1, bp)), PACK(size2, 0))
           IN  [heap |-> [h EXCEPT !.mem = m2], bp |-> PREV_BLKP(m2, bp)]
      ELSE LET size2 == size + GET_SIZE(GET(m, HDRP(PREV_BLKP(m, bp))))
                             + GET_SIZE(GET(m, HDRP(NEXT_BLKP(m, bp))))
               h1 == removeEFLNode(h, NEXT_BLKP(m, bp))
               m1 == PUT(h1.mem, HDRP(PREV_BLKP(h1.mem, bp)), PACK(size2, 0))
               m2 == PUT(m1, FTRP(m1, PREV_BLKP(m1, bp)), PACK(size2, 0))
           IN  [heap |-> [h1 EXCEPT !.mem = m2], bp |-> PREV_BLKP(m2, bp)]

(* ---------------- mm_free ---------------- *)

\* mm_free that never gives an empty region back
mm_free_noUnmap(h, bp0) ==
  LET size0 == GET_SIZE(GET(h.mem, HDRP(bp0)))
      m1 == PUT(h.mem, HDRP(bp0), PACK(size0, 0))
      m2 == PUT(m1, FTRP(m1, bp0), PACK(size0, 0))
  IN  coalesce([h EXCEPT !.mem = m2], bp0).heap

\* mm_free without "if (start == basePage) return"
mm_free_noBaseCheck(h, bp0) ==
  LET size0 == GET_SIZE(GET(h.mem, HDRP(bp0)))
      m1 == PUT(h.mem, HDRP(bp0), PACK(size0, 0))
      m2 == PUT(m1, FTRP(m1, bp0), PACK(size0, 0))
      c  == coalesce([h EXCEPT !.mem = m2], bp0)
      h1 == c.heap
      bp == c.bp
      size == GET_SIZE(GET(h1.mem, HDRP(bp)))
  IN  IF GET_SIZE(GET(h1.mem, HDRP(PREV_BLKP(h1.mem, bp)))) = OVERHEAD
         /\ GET_SIZE(GET(h1.mem, HDRP(NEXT_BLKP(h1.mem, bp)))) = 0
      THEN mem_unmap(removeEFLNode(h1, bp), bp - 2 * OVERHEAD, size + PAGEOVERHEAD)
      ELSE h1

\* mm_free that unmaps the block's size only, without the region's bookkeeping
mm_free_shortUnmap(h, bp0) ==
  LET size0 == GET_SIZE(GET(h.mem, HDRP(bp0)))
      m1 == PUT(h.mem, HDRP(bp0), PACK(size0, 0))
      m2 == PUT(m1, FTRP(m1, bp0), PACK(size0, 0))
      c  == coalesce([h EXCEPT !.mem = m2], bp0)
      h1 == c.heap
      bp == c.bp
      size == GET_SIZE(GET(h1.mem, HDRP(bp)))
  IN  IF GET_SIZE(GET(h1.mem, HDRP(PREV_BLKP(h1.mem, bp)))) = OVERHEAD
         /\ GET_SIZE(GET(h1.mem, HDRP(NEXT_BLKP(h1.mem, bp)))) = 0
      THEN LET start == bp - 2 * OVERHEAD IN
           IF start = h1.basePage THEN h1
           ELSE mem_unmap(removeEFLNode(h1, bp), start, size)
      ELSE h1

\* mm_free that unmaps an empty region without taking its block off the free list
mm_free_unmapKeepsNode(h, bp0) ==
  LET size0 == GET_SIZE(GET(h.mem, HDRP(bp0)))
      m1 == PUT(h.mem, HDRP(bp0), PACK(size0, 0))
      m2 == PUT(m1, FTRP(m1, bp0), PACK(size0, 0))
      c  == coalesce([h EXCEPT !.mem = m2], bp0)
      h1 == c.heap
      bp == c.bp
      size == GET_SIZE(GET(h1.mem, HDRP(bp)))
  IN  IF GET_SIZE(GET(h1.mem, HDRP(PREV_BLKP(h1.mem, bp)))) = OVERHEAD
         /\ GET_SIZE(GET(h1.mem, HDRP(NEXT_BLKP(h1.mem, bp)))) = 0
      THEN LET start == bp - 2 * OVERHEAD IN
           IF start = h1.basePage THEN h1
           ELSE mem_unmap(h1, start, size + PAGEOVERHEAD)
      ELSE h1

\* mm_free that puts the block in the free list without merging it
mm_free_noCoalesce(h, bp0) ==
  LET size0 == GET_SIZE(GET(h.mem, HDRP(bp0)))
      m1 == PUT(h.mem, HDRP(bp0), PACK(size0, 0))
      m2 == PUT(m1, FTRP(m1, bp0), PACK(size0, 0))
  IN  addEFLNode([h EXCEPT !.mem = m2], bp0)

mm_free(h, bp0) ==
  LET size0 == GET_SIZE(GET(h.mem, HDRP(bp0)))
      m1 == PUT(h.mem, HDRP(bp0), PACK(size0, 0))
      m2 == PUT(m1, FTRP(m1, bp0), PACK(size0, 0))
      c  == coalesce([h EXCEPT !.mem = m2], bp0)
      h1 == c.heap
      bp == c.bp
      size == GET_SIZE(GET(h1.mem, HDRP(bp)))
  IN  IF GET_SIZE(GET(h1.mem, HDRP(PREV_BLKP(h1.mem, bp)))) = OVERHEAD
         /\ GET_SIZE(GET(h1.mem, HDRP(NEXT_BLKP(h1.mem, bp)))) = 0
      THEN LET start == bp - 2 * OVERHEAD IN
           IF start = h1.basePage THEN h1
           ELSE mem_unmap(removeEFLNode(h1, bp), start, size + PAGEOVERHEAD)
      ELSE h1

(* ---------------- mm_malloc ---------------- *)

\* the aligned size without room for the header and footer
SizeAlign_noOverhead(size) == ALIGN(IF size <= MINSIZE THEN MINSIZE ELSE size)

\* the request size with the overhead added but not rounded up to ALIGNMENT
SizeAlign_noAlign(size) == (IF size <= MINSIZE THEN MINSIZE ELSE size) + OVERHEAD

\* size after "if (size <= MINSIZE) size = MINSIZE", then ALIGN(size + OVERHEAD)
SizeAlign(size) ==
  ALIGN(Wrap((IF size <= MINSIZE THEN MINSIZE ELSE size) + OVERHEAD))

\* a search that returns the last node that holds sizeAlign, not the first
RECURSIVE FirstFit_lastFit(_, _, _)
FirstFit_lastFit(m, avail, sizeAlign) ==
  IF avail = NULL THEN NULL
  ELSE LET later == FirstFit_lastFit(m, GET(m, NextField(avail)), sizeAlign) IN
       IF later # NULL THEN later
       ELSE IF GET_SIZE(GET(m, HDRP(avail))) >= sizeAlign THEN avail
       ELSE NULL

\* the while loop: the first node from avail on whose block holds sizeAlign, or NULL
RECURSIVE FirstFit(_, _, _)
FirstFit(m, avail, sizeAlign) ==
  IF avail = NULL THEN NULL
  ELSE IF GET_SIZE(GET(m, HDRP(avail))) >= sizeAlign THEN avail
  ELSE FirstFit(m, GET(m, NextField(avail)), sizeAlign)

(* ---------------- state ---------------- *)

VARIABLES
  pc,        \* "start": before mm_init; "idle": between calls; "malloc": inside
             \* mm_malloc, extend has returned and mm_malloc(size) is re-entered next
  mem,       \* the words written in the mapped regions
  nextFree,  \* head of the explicit free list
  basePage,  \* base of the first region ever mapped
  regions,   \* the regions mapped and not unmapped: [base, len]
  unmaps,    \* the mem_unmap calls of the current (or last) public call
  nmaps,     \* the number of mem_map calls of the current (or last) public call
  lastMap,   \* the latest of them: [bytes, adr], adr = NULL when it failed
  live,      \* payloads returned and not yet released, with the size asked for
  op,        \* the public call in progress, or the last one when pc = "idle"
  arg,       \* its argument
  ret,       \* the value the last call returned
  ncalls,    \* the public calls made after mm_init
  hist       \* the calls of a scripted scenario so far: [op, arg]

vars == <<pc, mem, nextFree, basePage, regions, unmaps, nmaps, lastMap, live,
          op, arg, ret, ncalls, hist, pageRatio>>

NoMap == [bytes |-> 0, adr |-> NULL]

\* the allocator's state at the entry of a public call
Heap == [mem |-> mem, nextFree |-> nextFree, basePage |-> basePage,
         regions |-> regions, unmaps |-> <<>>]

Install(h) ==
  /\ mem' = h.mem
  /\ nextFree' = h.nextFree
  /\ basePage' = h.basePage
  /\ regions' = h.regions
  /\ unmaps' = h.unmaps

\* before mm_init: both globals are zero and nothing is mapped
InitHeap ==
  /\ pc = "start"
  /\ mem = <<>>
  /\ nextFree = NULL
  /\ basePage = NULL
  /\ regions = {}
  /\ unmaps = <<>>
  /\ nmaps = 0
  /\ lastMap = NoMap
  /\ live = {}
  /\ op = "none"
  /\ arg = 0
  /\ ret = 0
  /\ ncalls = 0
  /\ hist = <<>>

Init == InitHeap /\ pageRatio = PAGERATIO

\* mm_init(): clears both globals, extends by one page, returns 0
mm_init ==
  /\ pc = "start"
  /\ \E pageAdr \in mem_map(regions, ExtendBytes(PAGESIZE)) :
       /\ Install(extend([Heap EXCEPT !.nextFree = NULL, !.basePage = NULL],
                         PAGESIZE, pageAdr))
       /\ lastMap' = [bytes |-> ExtendBytes(PAGESIZE), adr |-> pageAdr]
  /\ nmaps' = 1
  /\ pc' = "idle"
  /\ op' = "init"
  /\ arg' = 0
  /\ ret' = 0
  /\ UNCHANGED <<live, ncalls, pageRatio>>

\* mm_malloc without "if (size == 0) return NULL"
MallocBody_noZeroCheck(h, size, n, lm) ==
  LET sizeAlign == SizeAlign(size)
      avail == FirstFit(h.mem, h.nextFree, sizeAlign)
  IN  IF avail # NULL
      THEN /\ Install(setAllocated(h, avail, sizeAlign))
           /\ pc' = "idle" /\ ret' = avail
           /\ live' = live \cup {[p |-> avail, n |-> size]}
           /\ nmaps' = n /\ lastMap' = lm
      ELSE /\ n < MaxRetry
           /\ \E pageAdr \in mem_map(h.regions, ExtendBytes(sizeAlign)) :
                /\ Install(extend(h, sizeAlign, pageAdr))
                /\ lastMap' = [bytes |-> ExtendBytes(sizeAlign), adr |-> pageAdr]
           /\ nmaps' = n + 1
           /\ pc' = "malloc"
           /\ UNCHANGED <<live, ret>>

\* one activation of mm_malloc(size) on heap h, n and lm being the call's map
\* count and latest map so far: it returns, or it extends and re-enters itself
MallocBody(h, size, n, lm) ==
  IF size = 0
  THEN /\ Install(h)
       /\ pc' = "idle" /\ ret' = NULL
       /\ nmaps' = n /\ lastMap' = lm
       /\ UNCHANGED live
  ELSE LET sizeAlign == SizeAlign(size)
           avail == FirstFit(h.mem, h.nextFree, sizeAlign)
       IN  IF avail # NULL
           THEN /\ Install(setAllocated(h, avail, sizeAlign))
                /\ pc' = "idle" /\ ret' = avail
                /\ live' = live \cup {[p |-> avail, n |-> size]}
                /\ nmaps' = n /\ lastMap' = lm
           ELSE /\ n < MaxRetry
                /\ \E pageAdr \in mem_map(h.regions, ExtendBytes(sizeAlign)) :
                     /\ Install(extend(h, sizeAlign, pageAdr))
                     /\ lastMap' = [bytes |-> ExtendBytes(sizeAlign), adr |-> pageAdr]
                /\ nmaps' = n + 1
                /\ pc' = "malloc"
                /\ UNCHANGED <<live, ret>>

\* the client calls mm_malloc(size)
MallocCall(size) ==
  /\ pc = "idle"
  /\ ncalls < MaxCalls
  /\ size = 0 \/ Cardinality(live) < MaxLive
  /\ ncalls' = ncalls + 1
  /\ op' = "malloc"
  /\ arg' = size
  /\ MallocBody(Heap, size, 0, NoMap)
  /\ UNCHANGED pageRatio

\* "return mm_malloc(size)" after extend; size is the request already raised to
\* MINSIZE, which SizeAlign maps to the same aligned size as the request itself
MallocRetry ==
  /\ pc = "malloc"
  /\ UNCHANGED <<op, arg, ncalls, pageRatio>>
  /\ MallocBody([Heap EXCEPT !.unmaps = unmaps], arg, nmaps, lastMap)

\* the client calls mm_free(bp) on a payload it holds
FreeCall(bp) ==
  /\ pc = "idle"
  /\ ncalls < MaxCalls
  /\ \E a \in live : a.p = bp
  /\ ncalls' = ncalls + 1
  /\ Install(mm_free(Heap, bp))
  /\ live' = {a \in live : a.p # bp}
  /\ pc' = "idle" /\ op' = "free" /\ arg' = bp /\ ret' = 0
  /\ nmaps' = 0 /\ lastMap' = NoMap
  /\ UNCHANGED pageRatio

Next ==
  \/ mm_init /\ UNCHANGED hist
  \/ \E size \in Requests : MallocCall(size) /\ UNCHANGED hist
  \/ MallocRetry /\ UNCHANGED hist
  \/ \E bp \in {a.p : a \in live} : FreeCall(bp) /\ UNCHANGED hist

Spec == Init /\ [][Next]_vars

(* ---------------- reading the heap ---------------- *)

\* payload pointer of the prologue block of region r
Prologue(r) == r.base + ALIGNMENT \div 2 + SIZEOF_WORD

\* block pointers met stepping forward from bp by header sizes, up to the first
\* block of size 0 or the first one outside r (that last pointer included)
RECURSIVE Walk(_, _, _)
Walk(m, r, bp) ==
  IF bp < r.base + SIZEOF_WORD \/ bp > r.base + r.len \/ GET_SIZE(GET(m, HDRP(bp))) = 0
  THEN <<bp>>
  ELSE <<bp>> \o Walk(m, r, NEXT_BLKP(m, bp))

\* the blocks of r before the epilogue, the prologue first
BlocksOf(m, r) == LET w == Walk(m, r, Prologue(r)) IN SubSeq(w, 1, Len(w) - 1)

\* where the walk of r stops
WalkEnd(m, r) == LET w == Walk(m, r, Prologue(r)) IN w[Len(w)]

Range(q) == {q[i] : i \in 1..Len(q)}

AllBlocks == UNION {Range(BlocksOf(mem, r)) : r \in regions}

FreeBlocks == {bp \in AllBlocks : GET_ALLOC(GET(mem, HDRP(bp))) = 0}

\* the nodes met from node on following next, at most fuel of them
RECURSIVE ListFrom(_, _, _)
ListFrom(m, node, fuel) ==
  IF node = NULL \/ fuel = 0 THEN <<>>
  ELSE <<node>> \o ListFrom(m, GET(m, NextField(node)), fuel - 1)

\* the free list, cut one node after the number of free blocks
EFL == ListFrom(mem, nextFree, Cardinality(FreeBlocks) + 1)

Returned == pc = "idle" /\ op # "none"

(* ---------------- C1 ---------------- *)

\* C1: after any prefix of initialize/allocate/release calls, every block
\* reachable by forward stepping from a mapped region's prologue has a footer
\* word equal to its header word, the interior free block of a freshly mapped
\* region included.
C1_HeaderFooterParity ==
  Returned =>
    LET blocks == AllBlocks IN
    \A bp \in blocks : GET(mem, FTRP(mem, bp)) = GET(mem, HDRP(bp))

(* ---------------- C2 ---------------- *)

\* C2: after any prefix of initialize/allocate/release calls, walking from the
\* free-list head via next ends in NULL and visits exactly the blocks whose
\* allocated bit is clear, each once; the head has prev = NULL and every visited
\* node n with a successor has n.next.prev = n.
C2_EFLSoundness ==
  Returned =>
    LET free == FreeBlocks
        list == ListFrom(mem, nextFree, Cardinality(free) + 1)
    IN  /\ Len(list) = Cardinality(free)
        /\ Range(list) = free
        /\ nextFree # NULL => GET(mem, PrevField(nextFree)) = NULL
        /\ \A i \in 1..Len(list) :
             LET next == GET(mem, NextField(list[i])) IN
             next # NULL => GET(mem, PrevField(next)) = list[i]

\* a call has returned leaving a free list of three nodes that lie in two regions
C2_Witness ==
  /\ Returned
  /\ Len(EFL) = 3
  /\ Cardinality({r \in regions : \E i \in 1..Len(EFL) : RegionOf({r}, EFL[i]) # {}}) = 2

(* ---------------- C3 ---------------- *)

\* C3: after every allocate or release call returns, of any two address-adjacent
\* blocks of a mapped region at least one has its allocated bit set.
C3_NoAdjacentFree ==
  (pc = "idle" /\ op \in {"malloc", "free"}) =>
    \A r \in regions :
      LET w == Walk(mem, r, Prologue(r)) IN
      \A i \in 1..(Len(w) - 1) :
        GET_ALLOC(GET(mem, HDRP(w[i]))) = 1 \/ GET_ALLOC(GET(mem, HDRP(w[i + 1]))) = 1

\* a release has just merged a block with free neighbours on both sides, and
\* another block of the same region is still allocated
C3_Witness ==
  /\ pc = "idle" /\ op = "free"
  /\ \E bp \in FreeBlocks :
       /\ bp < arg /\ arg < NEXT_BLKP(mem, bp)
       /\ GET_SIZE(GET(mem, HDRP(arg))) > 0
       /\ arg + GET_SIZE(GET(mem, HDRP(arg))) < NEXT_BLKP(mem, bp)
  /\ \E a \in live : RegionOf(regions, a.p) = RegionOf(regions, arg)

(* ---------------- C4 ---------------- *)

\* the bytes [p, p + n) of a live allocation
Bytes(a) == [lo |-> a.p, hi |-> a.p + a.n]

\* C4: the byte ranges of any two live allocations are disjoint, and each lies
\* inside the payload area of its own allocated block in a mapped region.
C4_NonOverlap ==
  /\ \A a, b \in live :
       a # b => (Bytes(a).hi <= Bytes(b).lo \/ Bytes(b).hi <= Bytes(a).lo)
  /\ LET blocks == AllBlocks IN
     \A a \in live :
       /\ a.p \in blocks
       /\ GET_ALLOC(GET(mem, HDRP(a.p))) = 1
       /\ a.p + a.n <= FTRP(mem, a.p)

\* three allocations are live, one of them in a block reused after a release
\* without being split (its block is larger than the size asked for)
C4_Witness ==
  /\ pc = "idle"
  /\ Cardinality(live) = 3
  /\ \E a \in live : GET_SIZE(GET(mem, HDRP(a.p))) = SizeAlign(a.n) + ALIGNMENT

(* ---------------- C5 ---------------- *)

\* C5: every non-NULL address mm_malloc returns, and so every payload the client
\* holds, is a multiple of 16.
C5_Alignment ==
  /\ (pc = "idle" /\ op = "malloc") => ret % ALIGNMENT = 0
  /\ \A a \in live : a.p % ALIGNMENT = 0

\* mm_malloc has just returned a payload of a region mapped by this very call,
\* while an earlier block released and merged is free in another region
C5_Witness ==
  /\ pc = "idle" /\ op = "malloc" /\ ret # NULL
  /\ nmaps = 1 /\ lastMap.adr # NULL
  /\ ret = lastMap.adr + PAGEOVERHEAD
  /\ \E bp \in FreeBlocks : RegionOf(regions, bp) # RegionOf(regions, ret)

(* ---------------- C6 ---------------- *)

\* C6: when mm_malloc(n), n > 0, called after a successful mm_init, finds no
\* fitting free block and mem_map fails in the extend that follows, mm_malloc
\* returns, and returns NULL.
C6_OutOfMemoryReturnsAbsent ==
  (basePage # NULL /\ op = "malloc" /\ nmaps >= 1 /\ lastMap.adr = NULL)
    => (pc = "idle" /\ ret = NULL)

(* ---------------- C7 ---------------- *)

\* C7: if mem_map fails inside extend, then on return from extend the free-list
\* head, every word of every mapped region (free-list links, headers and
\* footers), the base page and the set of regions are what they were before.
C7_FailedExtendNoOp ==
  [][(lastMap'.adr = NULL /\ nmaps' >= 1 /\ (pc = "start" \/ pc' = "malloc"))
       => (mem' = mem /\ nextFree' = nextFree /\ basePage' = basePage
           /\ regions' = regions)]_vars

\* extend has just failed inside mm_malloc, with allocations live and a free
\* list that holds blocks too small for the request
C7_Witness ==
  /\ pc = "malloc" /\ lastMap.adr = NULL /\ lastMap.bytes > 0
  /\ live # {} /\ nextFree # NULL

(* ---------------- C8 ---------------- *)

\* C8: mm_malloc(0) returns NULL and changes nothing: the free list, the base
\* page, the mapped regions and every word stay, and it calls neither mem_map
\* nor mem_unmap.
C8_AllocateZero ==
  [][(pc = "idle" /\ op' = "malloc" /\ arg' = 0 /\ ncalls' = ncalls + 1)
       => (pc' = "idle" /\ ret' = NULL /\ mem' = mem /\ nextFree' = nextFree
           /\ basePage' = basePage /\ regions' = regions /\ live' = live
           /\ nmaps' = 0 /\ unmaps' = <<>>)]_vars

\* mm_malloc(0) has just returned on a heap with live allocations and a free
\* list of two blocks or more
C8_Witness ==
  /\ pc = "idle" /\ op = "malloc" /\ arg = 0 /\ ret = NULL
  /\ live # {} /\ Len(EFL) >= 2

(* ---------------- C9 ---------------- *)

\* the interior of region r is one free block, which is the whole free list
OneFreeBlock(r) ==
  /\ BlocksOf(mem, r) = <<Prologue(r), r.base + PAGEOVERHEAD>>
  /\ WalkEnd(mem, r) = r.base + r.len
  /\ GET(mem, HDRP(r.base + PAGEOVERHEAD)) = PACK(r.len - PAGEOVERHEAD, 0)

\* C9: once every allocated payload has been released, whatever the order, the
\* only mapped region is the primordial one, its interior is a single free
\* block of size region_bytes - PAGEOVERHEAD, and the free list is that block.
C9_RoundTrip ==
  (pc = "idle" /\ live = {} /\ basePage # NULL) =>
    \E r \in regions :
      /\ r.base = basePage
      /\ regions = {r}
      /\ OneFreeBlock(r)
      /\ EFL = <<r.base + PAGEOVERHEAD>>

\* after three allocations the last live one has just been released, and that
\* release gave a second region back
C9_Witness ==
  /\ pc = "idle" /\ op = "free" /\ live = {}
  /\ ncalls >= 6
  /\ Len(unmaps) = 1

(* ---------------- C10 ---------------- *)

\* C10: no mem_unmap call ever names the base page, which stays mapped; a
\* release of a block of the primordial region makes no mem_unmap call, and when
\* it leaves that region entirely free its single free block is in the free list.
C10_PrimordialNeverUnmapped ==
  /\ \A i \in 1..Len(unmaps) : unmaps[i].base # basePage
  /\ basePage # NULL => \E r \in regions : r.base = basePage
  /\ \A r \in regions :
       (pc = "idle" /\ op = "free" /\ r.base = basePage
        /\ r.base < arg /\ arg < r.base + r.len)
         => /\ unmaps = <<>>
            /\ OneFreeBlock(r) => \E i \in 1..Len(EFL) : EFL[i] = r.base + PAGEOVERHEAD

\* a release has just emptied the primordial region while an allocation is
\* live in another region
C10_Witness ==
  /\ pc = "idle" /\ op = "free"
  /\ \E r \in regions : r.base = basePage /\ OneFreeBlock(r)
                        /\ r.base < arg /\ arg < r.base + r.len
  /\ live # {}

(* ---------------- C11 ---------------- *)

\* the allocated blocks of region r behind its prologue
AllocatedIn(m, r) ==
  LET blocks == BlocksOf(m, r) IN
  {blocks[i] : i \in {j \in 2..Len(blocks) : GET_ALLOC(GET(m, HDRP(blocks[j]))) = 1}}

\* a step that is a call of mm_free
IsFree == pc = "idle" /\ op' = "free" /\ ncalls' = ncalls + 1

\* C11: mm_free of the only allocated block of a region other than the
\* primordial one makes exactly one mem_unmap call, with that region's base and
\* the length it was mapped with, and no free-list node is left inside it; a
\* mm_free that leaves an allocated block in its region makes no mem_unmap call.
C11_UnmapOnEmptyRegion ==
  [][IsFree =>
       \A r \in RegionOf(regions, arg') :
         IF AllocatedIn(mem, r) = {arg'}
         THEN r.base # basePage =>
                /\ unmaps' = <<[base |-> r.base, len |-> r.len]>>
                /\ regions' = regions \ {r}
                /\ LET m2 == mem'
                       head == nextFree'
                       list == ListFrom(m2, head, Cardinality(FreeBlocks) + 2)
                   IN \A i \in 1..Len(list) : RegionOf({r}, list[i]) = {}
         ELSE unmaps' = <<>>]_vars

\* mm_free has just given back a region mapped with more than ten pages, while
\* allocations are live elsewhere and the free list is not empty
C11_Witness ==
  /\ pc = "idle" /\ op = "free"
  /\ Len(unmaps) = 1 /\ unmaps[1].len > PAGERATIO * PAGESIZE
  /\ live # {} /\ nextFree # NULL

(* ---------------- C12 ---------------- *)

\* C12: after every mm_malloc or mm_free returns, every mapped region other
\* than the primordial one holds at least one allocated interior block.
C12_NoEmptyExtraRegion ==
  (pc = "idle" /\ op \in {"malloc", "free"}) =>
    \A r \in regions : r.base # basePage => AllocatedIn(mem, r) # {}

\* mm_free has returned from freeing a block of a region other than the
\* primordial one, and the region is still mapped
C12_Witness ==
  /\ pc = "idle" /\ op = "free" /\ unmaps = <<>>
  /\ \E r \in RegionOf(regions, arg) :
       /\ r.base # basePage
       /\ GET_ALLOC(GET(mem, HDRP(arg))) = 0
       /\ AllocatedIn(mem, r) # {}

(* ---------------- C13 ---------------- *)

\* C13: mm_init returns success exactly when its initial mem_map succeeded:
\* whenever it has returned 0 the base page is recorded and the free list is
\* exactly one node, the primordial interior free block of size
\* PAGERATIO * PAGESIZE - PAGEOVERHEAD; when the map failed it has not
\* returned 0.
C13_InitReportsMapResult ==
  (pc = "idle" /\ op = "init" /\ ret = 0) =>
    /\ lastMap.adr # NULL
    /\ basePage = lastMap.adr
    /\ EFL = <<basePage + PAGEOVERHEAD>>
    /\ GET(mem, HDRP(basePage + PAGEOVERHEAD))
         = PACK(pageRatio * PAGESIZE - PAGEOVERHEAD, 0)

(* ---------------- C14 ---------------- *)

\* sum of the header sizes of the block pointers in w
RECURSIVE SumSizes(_, _)
SumSizes(m, w) ==
  IF w = <<>> THEN 0
  ELSE GET_SIZE(GET(m, HDRP(Head(w)))) + SumSizes(m, Tail(w))

\* stepping forward from the prologue of r stays inside r and stops at the
\* epilogue word (0, allocated), the last word of r
WalkReachesEpilogue(m, r) ==
  LET w == Walk(m, r, Prologue(r)) IN
  /\ \A i \in 1..Len(w) :
       HDRP(w[i]) >= r.base /\ HDRP(w[i]) + SIZEOF_WORD <= r.base + r.len
  /\ GET(m, HDRP(w[Len(w)])) = PACK(0, 1)
  /\ HDRP(w[Len(w)]) = r.base + r.len - SIZEOF_WORD

\* C14: after every public call returns, for every mapped region, stepping
\* forward from the prologue by header sizes visits only blocks inside the
\* region and reaches the epilogue word (size 0, allocated), and the sizes of
\* the blocks visited plus the leading padding add up to the region's length.
C14_WalkSumIsRegionLength ==
  Returned =>
    \A r \in regions :
      /\ WalkReachesEpilogue(mem, r)
      /\ SumSizes(mem, Walk(mem, r, Prologue(r))) + ALIGNMENT \div 2 = r.len

\* C14 (amended): the walk stays inside the region and reaches the epilogue
\* word, and the sizes of the blocks visited plus the leading padding plus the
\* one word the epilogue occupies add up to the region's length.
C14_WalkSumPlusEpilogueWord ==
  Returned =>
    \A r \in regions :
      /\ WalkReachesEpilogue(mem, r)
      /\ SumSizes(mem, Walk(mem, r, Prologue(r))) + ALIGNMENT \div 2 + SIZEOF_WORD
           = r.len

\* two regions are mapped and one of them has been split into at least three
\* interior blocks
C14_Witness ==
  /\ Returned
  /\ Cardinality(regions) = 2
  /\ \E r \in regions : Len(BlocksOf(mem, r)) >= 4

(* ---------------- C15 ---------------- *)

\* x rounded up to a multiple of a
AlignUp(x, a) == x + ((a - (x % a)) % a)

\* s = align_up(max(n, 2W) + OVERHEAD, 16)
RoundedRequest(n) ==
  AlignUp((IF n > 2 * SIZEOF_WORD THEN n ELSE 2 * SIZEOF_WORD) + OVERHEAD, 16)

\* a step that runs the body of mm_malloc: the call itself or its re-entry
IsMalloc == op' = "malloc" /\ (pc = "malloc" \/ ncalls' = ncalls + 1)

\* C15: for n > 0 mm_malloc asks the free list for
\* s = align_up(max(n, 2W) + OVERHEAD, 16) bytes: it takes the first node that
\* holds s, as a block of s bytes or of the node's whole size, and maps for s
\* when no node holds s; and mm_malloc(n) for 1 <= n <= 2W returns the address
\* and leaves the heap that mm_malloc(2W) gives from the same state.
C15_RequestRounding ==
  [][(IsMalloc /\ arg' > 0) =>
       LET s == RoundedRequest(arg')
           fit == FirstFit(mem, nextFree, s)
           small == arg' <= 2 * SIZEOF_WORD
           s2W == SizeAlign(2 * SIZEOF_WORD)
           fit2W == FirstFit(mem, nextFree, s2W)
       IN  /\ \A n \in 1..(2 * SIZEOF_WORD) : SizeAlign(n) = s2W
           /\ IF fit # NULL
              THEN LET avail == GET_SIZE(GET(mem, HDRP(fit))) IN
                   /\ pc' = "idle" /\ ret' = fit
                   /\ GET(mem', HDRP(fit))
                        = PACK(IF avail - s >= PAGEOVERHEAD THEN s ELSE avail, 1)
                   /\ small =>
                        LET h2W == setAllocated(Heap, fit2W, s2W) IN
                        /\ ret' = fit2W
                        /\ mem' = h2W.mem /\ nextFree' = h2W.nextFree
                        /\ regions' = h2W.regions /\ basePage' = h2W.basePage
              ELSE /\ pc' = "malloc"
                   /\ lastMap'.bytes = ExtendBytes(s)
                   /\ small =>
                        LET h2W == extend(Heap, s2W, lastMap'.adr) IN
                        /\ fit2W = NULL
                        /\ mem' = h2W.mem /\ nextFree' = h2W.nextFree
                        /\ regions' = h2W.regions /\ basePage' = h2W.basePage]_vars

\* mm_malloc(1) has returned a block of 2W + OVERHEAD bytes while another
\* allocation is live
C15_Witness ==
  /\ pc = "idle" /\ op = "malloc" /\ arg = 1 /\ ret # NULL
  /\ GET(mem, HDRP(ret)) = PACK(2 * SIZEOF_WORD + OVERHEAD, 1)
  /\ Cardinality(live) >= 2

(* ---------------- C16 ---------------- *)

\* C16: with PAGERATIO = 10, whenever mm_malloc(n), n > 0, finds no fitting
\* block and mem_map succeeds, extend maps exactly PAGERATIO * page_align(s)
\* bytes and leaves at the head of the free list a free block of at least s
\* bytes, and the re-entered mm_malloc returns that block without another
\* mem_map call.
C16_RetryAfterOneExtend ==
  [][/\ (IsMalloc /\ arg' > 0 /\ pc' = "malloc" /\ lastMap'.adr # NULL) =>
          LET s == RoundedRequest(arg') IN
          /\ FirstFit(mem, nextFree, s) = NULL
          /\ nmaps' = (IF pc = "malloc" THEN nmaps ELSE 0) + 1
          /\ lastMap'.bytes = PAGERATIO * AlignUp(s, PAGESIZE)
          /\ [base |-> lastMap'.adr, len |-> lastMap'.bytes] \in regions'
          /\ nextFree' = lastMap'.adr + PAGEOVERHEAD
          /\ GET_ALLOC(GET(mem', HDRP(nextFree'))) = 0
          /\ GET_SIZE(GET(mem', HDRP(nextFree'))) >= s
     /\ (pc = "malloc" /\ lastMap.adr # NULL) =>
          /\ pc' = "idle"
          /\ ret' = nextFree /\ ret' # NULL
          /\ nmaps' = nmaps
          /\ GET_ALLOC(GET(mem', HDRP(ret'))) = 1]_vars

\* mm_malloc has returned a payload of a region it mapped in that call, after
\* one mem_map call, the base page being mapped before
C16_Witness ==
  /\ pc = "idle" /\ op = "malloc" /\ arg > 0
  /\ nmaps = 1 /\ lastMap.adr # NULL /\ lastMap.adr # basePage
  /\ ret = lastMap.adr + PAGEOVERHEAD

(* ---------------- C17 ---------------- *)

\* the allocator built with "#define PAGERATIO k" for k in 1..MaxRatio
MaxRatio == 3

\* the smallest request, and the largest one whose aligned size is less than a
\* page but more than a page less the region overhead
RatioRequests == {1, PAGESIZE - PAGEOVERHEAD}

InitK == InitHeap /\ pageRatio \in 1..MaxRatio

NextK ==
  \/ mm_init /\ UNCHANGED hist
  \/ \E size \in RatioRequests : MallocCall(size) /\ UNCHANGED hist
  \/ MallocRetry /\ UNCHANGED hist
  \/ \E bp \in {a.p : a \in live} : FreeCall(bp) /\ UNCHANGED hist

SpecK == InitK /\ [][NextK]_vars

\* a mm_malloc step that finds no fit and maps a region leaves a free block of
\* pageRatio * page_align(s) - PAGEOVERHEAD bytes, at least s, at the head of the
\* free list, and the step after it returns without another map
ExtendServesRequest ==
  /\ (IsMalloc /\ arg' > 0 /\ pc' = "malloc" /\ lastMap'.adr # NULL) =>
       LET s == RoundedRequest(arg')
           size == pageRatio * AlignUp(s, PAGESIZE) - PAGEOVERHEAD
       IN  /\ nextFree' = lastMap'.adr + PAGEOVERHEAD
           /\ GET(mem', HDRP(nextFree')) = PACK(size, 0)
           /\ size >= s
  /\ (pc = "malloc" /\ lastMap.adr # NULL) =>
       pc' = "idle" /\ ret' = nextFree /\ ret' # NULL /\ nmaps' = nmaps

\* the invariants of the heap that hold with PAGERATIO = 10: region walk (the
\* epilogue word counted), no adjacent free blocks, free list, alignment
HeapInvariants ==
  /\ C14_WalkSumPlusEpilogueWord
  /\ C3_NoAdjacentFree
  /\ C2_EFLSoundness
  /\ C5_Alignment

\* C17: for every positive page ratio (1 included) and every request n > 0 with
\* mem_map succeeding, extend(s) creates a free block of
\* ratio * page_align(s) - PAGEOVERHEAD >= s bytes, so mm_malloc returns after at
\* most one map call.
C17_AnyRatio == [][ExtendServesRequest]_vars

\* C17 (amended): for every page ratio of at least 2 and every request n > 0
\* with mem_map succeeding, extend(s) creates a free block of
\* ratio * page_align(s) - PAGEOVERHEAD >= s bytes, mm_malloc returns after at
\* most one map call, and the region walk, no-adjacent-free, free-list and
\* alignment invariants hold.
C17_RatioAtLeastTwo ==
  /\ [][pageRatio >= 2 => ExtendServesRequest]_vars
  /\ [](pageRatio >= 2 => HeapInvariants)

\* with a page ratio of 2, mm_malloc of nearly a page has returned a payload of
\* a region it mapped in that call
C17_Witness ==
  /\ pageRatio = 2
  /\ pc = "idle" /\ op = "malloc" /\ arg = PAGESIZE - PAGEOVERHEAD
  /\ nmaps = 1 /\ lastMap.adr # NULL /\ lastMap.adr # basePage
  /\ ret = lastMap.adr + PAGEOVERHEAD

(* ---------------- scripted scenarios ---------------- *)

\* the calls a scenario may hold, mm_init included
MaxSeedCalls == 6

\* the request sizes of the scenarios
SeedRequests == {16, 32, 64, 100, 40800}

\* the clients of Spec with the calls written down in hist
NextSeed ==
  \/ mm_init /\ hist' = <<[op |-> "init", arg |-> basePage']>>
  \/ \E size \in SeedRequests :
       /\ Len(hist) < MaxSeedCalls
       /\ MallocCall(size)
       /\ hist' = Append(hist, [op |-> "malloc", arg |-> size])
  \/ MallocRetry /\ UNCHANGED hist
  \/ \E bp \in {a.p : a \in live} :
       /\ Len(hist) < MaxSeedCalls
       /\ FreeCall(bp)
       /\ hist' = Append(hist, [op |-> "free", arg |-> bp])

SpecSeed == Init /\ [][NextSeed]_vars

\* the calls so far are mm_init with its map succeeding, then the mm_malloc and
\* mm_free calls of script ([op, arg], a mm_free arg being an offset from the
\* first payload of the base page), and the last one has returned
After(script) ==
  /\ pc = "idle"
  /\ Len(hist) = Len(script) + 1
  /\ hist[1].op = "init" /\ hist[1].arg # NULL
  /\ \A i \in 1..Len(script) :
       /\ hist[i + 1].op = script[i].op
       /\ hist[i + 1].arg = IF script[i].op = "free"
                            THEN hist[1].arg + PAGEOVERHEAD + script[i].arg
                            ELSE script[i].arg

Malloc(n) == [op |-> "malloc", arg |-> n]
Free(off) == [op |-> "free", arg |-> off]

\* the region mm_init mapped
Primordial == [base |-> basePage, len |-> PAGERATIO * PAGESIZE]

(* ---------------- C18 ---------------- *)

\* C18: after mm_init, a = mm_malloc(40800), b = mm_malloc(64), the call
\* mm_malloc(64) made exactly one mem_map call, of 40960 bytes, b lies in that
\* new region and the rest of the region is a free block of the free list;
\* mm_free(a) then makes no mem_unmap call, and mm_free(b) after it makes
\* exactly one, of 40960 bytes.
C18_Scenario3Maps ==
  /\ After(<<Malloc(40800), Malloc(64)>>) =>
       /\ nmaps = 1 /\ lastMap.bytes = 40960 /\ lastMap.adr # basePage
       /\ RegionOf(regions, ret) = {[base |-> lastMap.adr, len |-> 40960]}
       /\ \E i \in 1..Len(EFL) : RegionOf(regions, EFL[i]) = RegionOf(regions, ret)
  /\ After(<<Malloc(40800), Malloc(64), Free(0)>>) => unmaps = <<>>
  /\ After(<<Malloc(40800), Malloc(64), Free(0), Free(40816)>>) =>
       Len(unmaps) = 1 /\ unmaps[1].len = 40960

\* C18 (amended): after mm_init and a = mm_malloc(40800), which takes a block
\* of 40816 bytes at the start of the base page, mm_malloc(64) makes no mem_map
\* call: b = a + 40816 is a block of 80 bytes split from the 112 bytes left,
\* and the free list is the 32 bytes after it; mm_free(a) makes no mem_unmap
\* call and puts a before that remainder in the free list; mm_free(b) after it
\* makes no mem_unmap call and leaves the base page as one free block of 40928
\* bytes, the only node of the free list.
C18_Scenario3Served ==
  LET a == basePage + PAGEOVERHEAD
      b == a + 40816
  IN  /\ After(<<Malloc(40800)>>) =>
           /\ ret = a /\ nmaps = 0
           /\ GET(mem, HDRP(a)) = PACK(40816, 1)
           /\ EFL = <<b>> /\ GET(mem, HDRP(b)) = PACK(112, 0)
      /\ After(<<Malloc(40800), Malloc(64)>>) =>
           /\ ret = b /\ nmaps = 0 /\ regions = {Primordial}
           /\ GET(mem, HDRP(b)) = PACK(80, 1)
           /\ EFL = <<b + 80>> /\ GET(mem, HDRP(b + 80)) = PACK(32, 0)
      /\ After(<<Malloc(40800), Malloc(64), Free(0)>>) =>
           /\ unmaps = <<>> /\ regions = {Primordial}
           /\ EFL = <<a, b + 80>> /\ GET(mem, HDRP(a)) = PACK(40816, 0)
      /\ After(<<Malloc(40800), Malloc(64), Free(0), Free(40816)>>) =>
           /\ unmaps = <<>> /\ regions = {Primordial}
           /\ OneFreeBlock(Primordial)
           /\ EFL = <<a>>

\* the four calls of the scenario have returned
C18_Witness ==
  /\ After(<<Malloc(40800), Malloc(64), Free(0), Free(40816)>>)
  /\ live = {} /\ nextFree = basePage + PAGEOVERHEAD

(* ---------------- C19 ---------------- *)

\* C19: after mm_init and x, y, z = mm_malloc(100) three times, mm_free(y)
\* marks y's block free without merging it and makes it the head of the free
\* list; mm_free(x) then merges x's block with y's into one free block starting
\* at x, and the free list has one node, of 112 + 112 bytes.
C19_Scenario4OneNode ==
  LET x == basePage + PAGEOVERHEAD
      y == x + GET_SIZE(GET(mem, HDRP(x)))
  IN  /\ After(<<Malloc(100), Malloc(100), Malloc(100), Free(128)>>) =>
           /\ GET_ALLOC(GET(mem, HDRP(y))) = 0
           /\ GET_ALLOC(GET(mem, HDRP(x))) = 1
           /\ GET_ALLOC(GET(mem, HDRP(NEXT_BLKP(mem, y)))) = 1
           /\ nextFree = y
      /\ After(<<Malloc(100), Malloc(100), Malloc(100), Free(128), Free(0)>>) =>
           /\ EFL = <<x>>
           /\ GET(mem, HDRP(x)) = PACK(112 + 112, 0)

\* C19 (amended): mm_malloc(100) takes blocks of 128 bytes, so x, y, z are 128
\* bytes apart from the start of the base page and 40544 bytes stay free behind
\* z; mm_free(y) marks y's block free without merging it and makes it the head
\* of the free list, before that remainder; mm_free(x) then merges x's block
\* with y's into one free block of 128 + 128 bytes starting at x, the head of a
\* free list of two nodes: that block and the remainder behind z.
C19_Scenario4TwoNodes ==
  LET x == basePage + PAGEOVERHEAD
      y == x + 128
      z == y + 128
      rest == z + 128
  IN  /\ After(<<Malloc(100), Malloc(100), Malloc(100)>>) =>
           /\ ret = z /\ live = {[p |-> x, n |-> 100], [p |-> y, n |-> 100],
                                 [p |-> z, n |-> 100]}
           /\ \A bp \in {x, y, z} : GET(mem, HDRP(bp)) = PACK(128, 1)
           /\ EFL = <<rest>> /\ GET(mem, HDRP(rest)) = PACK(40544, 0)
      /\ After(<<Malloc(100), Malloc(100), Malloc(100), Free(128)>>) =>
           /\ GET(mem, HDRP(y)) = PACK(128, 0)
           /\ GET(mem, HDRP(x)) = PACK(128, 1) /\ GET(mem, HDRP(z)) = PACK(128, 1)
           /\ EFL = <<y, rest>>
      /\ After(<<Malloc(100), Malloc(100), Malloc(100), Free(128), Free(0)>>) =>
           /\ GET(mem, HDRP(x)) = PACK(128 + 128, 0)
           /\ NEXT_BLKP(mem, x) = z /\ GET(mem, HDRP(z)) = PACK(128, 1)
           /\ EFL = <<x, rest>>
           /\ unmaps = <<>>

\* the five calls of the scenario have returned, z still allocated
C19_Witness ==
  /\ After(<<Malloc(100), Malloc(100), Malloc(100), Free(128), Free(0)>>)
  /\ live = {[p |-> basePage + PAGEOVERHEAD + 256, n |-> 100]}

(* ---------------- C20 ---------------- *)

\* C20: after mm_init and p = mm_malloc(32), p is a multiple of 16, p's block
\* has 48 bytes, the rest of the base page is a free block of 40880 bytes and it
\* is the only node of the free list; after the following mm_free(p) the
\* interior of the base page is again one free block of 40928 = 40960 -
\* PAGEOVERHEAD bytes, the free list has one node, and no mem_unmap call was made.
C20_Scenarios1And2 ==
  LET p == basePage + PAGEOVERHEAD IN
  /\ After(<<Malloc(32)>>) =>
       /\ ret = p /\ p % 16 = 0
       /\ GET(mem, HDRP(p)) = PACK(48, 1)
       /\ BlocksOf(mem, Primordial) = <<Prologue(Primordial), p, p + 48>>
       /\ GET(mem, HDRP(p + 48)) = PACK(40880, 0)
       /\ Len(EFL) = 1 /\ EFL[1] = p + 48
  /\ After(<<Malloc(32), Free(0)>>) =>
       /\ OneFreeBlock(Primordial)
       /\ GET(mem, HDRP(p)) = PACK(40928, 0)
       /\ 40928 = 40960 - PAGEOVERHEAD
       /\ Len(EFL) = 1 /\ EFL[1] = p
       /\ unmaps = <<>> /\ regions = {Primordial}

\* mm_malloc(32) and the mm_free of its payload have returned
C20_Witness ==
  /\ After(<<Malloc(32), Free(0)>>)
  /\ live = {} /\ op = "free" /\ arg = basePage + PAGEOVERHEAD

(* ---------------- C21 ---------------- *)

\* the calls so far are mm_init with its map succeeding, then
\* p = mm_malloc(16) and mm_free(p) in turn, and the last one has returned
Churning ==
  /\ pc = "idle"
  /\ Len(hist) >= 1
  /\ hist[1].op = "init" /\ hist[1].arg # NULL
  /\ \A i \in 2..Len(hist) :
       hist[i] = IF i % 2 = 0 THEN Malloc(16)
                 ELSE [op |-> "free", arg |-> hist[1].arg + PAGEOVERHEAD]

\* the blocks and the free list mm_init leaves: only the base page is mapped,
\* its interior is one free block, the only node of the free list
LayoutAfterInit ==
  /\ regions = {Primordial}
  /\ OneFreeBlock(Primordial)
  /\ EFL = <<basePage + PAGEOVERHEAD>>
  /\ GET(mem, PrevField(nextFree)) = NULL /\ GET(mem, NextField(nextFree)) = NULL

\* C21: after mm_init, repeating p = mm_malloc(16); mm_free(p) makes no
\* mem_map call beyond the one of mm_init and no mem_unmap call, returns the
\* same address every time, and after every mm_free the blocks and the free
\* list are the ones mm_init left.
C21_SteadyState ==
  Churning =>
    /\ regions = {Primordial} /\ unmaps = <<>>
    /\ Len(hist) = 1 => LayoutAfterInit
    /\ (Len(hist) > 1 /\ Len(hist) % 2 = 0) =>
         nmaps = 0 /\ ret = basePage + PAGEOVERHEAD
    /\ (Len(hist) > 1 /\ Len(hist) % 2 = 1) => LayoutAfterInit

\* p = mm_malloc(16); mm_free(p) has been done twice
C21_Witness ==
  /\ Churning /\ Len(hist) = 5
  /\ op = "free" /\ live = {}

(* ---------------- C22 ---------------- *)

\* C22: when some block of the free list holds the aligned size s, mm_malloc
\* makes no mem_map call and returns the payload of the first such block in
\* list order from the head, whatever the sizes and addresses of the later ones.
C22_FirstFitLIFO ==
  [][(IsMalloc /\ arg' > 0) =>
       LET s == RoundedRequest(arg')
           list == EFL
           fits == {i \in 1..Len(list) : GET_SIZE(GET(mem, HDRP(list[i]))) >= s}
       IN  fits # {} =>
             /\ pc' = "idle"
             /\ nmaps' = (IF pc = "malloc" THEN nmaps ELSE 0)
             /\ regions' = regions
             /\ \E i \in fits : ret' = list[i] /\ \A j \in fits : i <= j]_vars

\* mm_malloc has returned the head of the free list although a node behind it,
\* still in the list, lies at a lower address and holds the request exactly
C22_Witness ==
  /\ pc = "idle" /\ op = "malloc" /\ arg > 0 /\ ret # NULL
  /\ \E i \in 1..Len(EFL) :
       /\ EFL[i] < ret
       /\ EFL[i] # NEXT_BLKP(mem, ret)
       /\ RegionOf(regions, EFL[i]) = RegionOf(regions, ret)
       /\ GET_SIZE(GET(mem, HDRP(EFL[i]))) = RoundedRequest(arg)

(* ---------------- C23 ---------------- *)

\* the sequence q without the element x
RECURSIVE Without(_, _)
Without(q, x) ==
  IF q = <<>> THEN <<>>
  ELSE IF Head(q) = x THEN Without(Tail(q), x)
  ELSE <<Head(q)>> \o Without(Tail(q), x)

\* C23: when mm_malloc takes a free block b of avail bytes for the aligned size
\* s <= avail, then if avail - s >= PAGEOVERHEAD b becomes allocated with size s
\* and leaves the free list, and a free block of avail - s bytes at b + s is
\* written, header and footer, and becomes the head of the free list; otherwise
\* b becomes allocated with size avail and leaves the free list, no block is
\* created, and avail - s < PAGEOVERHEAD.
C23_SplitPolicy ==
  [][(IsMalloc /\ arg' > 0 /\ pc' = "idle") =>
       LET s == RoundedRequest(arg')
           b == ret'
           avail == GET_SIZE(GET(mem, HDRP(b)))
           old == EFL
           m2 == mem'
           new == ListFrom(m2, nextFree', Len(old) + 2)
       IN  /\ GET_ALLOC(GET(mem, HDRP(b))) = 0 /\ s <= avail
           /\ IF avail - s >= PAGEOVERHEAD
              THEN /\ GET(m2, HDRP(b)) = PACK(s, 1)
                   /\ GET(m2, b + s - OVERHEAD) = PACK(s, 1)
                   /\ GET(m2, HDRP(b + s)) = PACK(avail - s, 0)
                   /\ GET(m2, b + avail - OVERHEAD) = PACK(avail - s, 0)
                   /\ new = <<b + s>> \o Without(old, b)
              ELSE /\ GET(m2, HDRP(b)) = PACK(avail, 1)
                   /\ GET(m2, b + avail - OVERHEAD) = PACK(avail, 1)
                   /\ new = Without(old, b)
                   /\ avail - s < PAGEOVERHEAD]_vars

\* mm_malloc has returned a block that it did not split although the block is
\* larger than the aligned size
C23_Witness ==
  /\ pc = "idle" /\ op = "malloc" /\ arg > 0 /\ ret # NULL
  /\ GET_ALLOC(GET(mem, HDRP(ret))) = 1
  /\ GET_SIZE(GET(mem, HDRP(ret))) > RoundedRequest(arg)
  /\ nextFree # NULL

(* ---------------- C24 ---------------- *)

\* the block before bp in the walk of region r (the prologue before the first)
Predecessor(m, r, bp) ==
  LET blocks == BlocksOf(m, r)
      i == CHOOSE k \in 1..Len(blocks) : blocks[k] = bp
  IN  blocks[i - 1]

\* 1 when the block at bp is free, else 0
FreeBit(m, bp) == 1 - GET_ALLOC(GET(m, HDRP(bp)))

\* C24: for mm_free of a block b with address-predecessor P and
\* address-successor N, when no mem_unmap follows, the resulting free block
\* starts at P if P was free and at b otherwise, its size is size(b) plus
\* size(P) if P was free plus size(N) if N was free, its header and footer both
\* hold (that size, 0), and the footer lies at the end of N if N was free and
\* at the end of b otherwise.
C24_CoalesceResult ==
  [][(IsFree /\ unmaps' = <<>>) =>
       \A r \in RegionOf(regions, arg') :
         LET b == arg'
             P == Predecessor(mem, r, b)
             N == NEXT_BLKP(mem, b)
             sizeB == GET_SIZE(GET(mem, HDRP(b)))
             sizeP == GET_SIZE(GET(mem, HDRP(P)))
             sizeN == GET_SIZE(GET(mem, HDRP(N)))
             start == IF FreeBit(mem, P) = 1 THEN P ELSE b
             size == sizeB + FreeBit(mem, P) * sizeP + FreeBit(mem, N) * sizeN
             end == IF FreeBit(mem, N) = 1 THEN N + sizeN ELSE b + sizeB
         IN  /\ GET(mem', HDRP(start)) = PACK(size, 0)
             /\ GET(mem', end - OVERHEAD) = PACK(size, 0)
             /\ end = start + size]_vars

\* mm_free has merged a block with the free block before it and the free
\* block after it, the last of its region, while the first block of the region
\* is allocated
C24_Witness ==
  /\ pc = "idle" /\ op = "free" /\ unmaps = <<>>
  /\ \E r \in RegionOf(regions, arg) :
       \E bp \in FreeBlocks :
         /\ r.base + PAGEOVERHEAD < bp /\ bp < arg
         /\ GET_SIZE(GET(mem, HDRP(arg))) >= 2 * OVERHEAD
         /\ arg + GET_SIZE(GET(mem, HDRP(arg))) < NEXT_BLKP(mem, bp)
         /\ NEXT_BLKP(mem, bp) = r.base + r.len

(* ---------------- C25 ---------------- *)

\* C25: on mm_free of b, when no mem_unmap follows, if the predecessor P is
\* allocated the merged block becomes the head of the free list; if P is free
\* the merged block keeps P's place in the list and is not inserted again, so
\* with N allocated the list is unchanged; in every case a free successor N
\* leaves the list and the order of all other nodes is unchanged.
C25_CoalesceListPosition ==
  [][(IsFree /\ unmaps' = <<>>) =>
       \A r \in RegionOf(regions, arg') :
         LET b == arg'
             P == Predecessor(mem, r, b)
             N == NEXT_BLKP(mem, b)
             old == EFL
             kept == IF FreeBit(mem, N) = 1 THEN Without(old, N) ELSE old
             m2 == mem'
             new == ListFrom(m2, nextFree', Len(old) + 2)
         IN  /\ FreeBit(mem, N) = 1 => \E i \in 1..Len(old) : old[i] = N
             /\ IF FreeBit(mem, P) = 1
                THEN /\ \E i \in 1..Len(old) : old[i] = P
                     /\ new = kept
                ELSE new = <<b>> \o kept]_vars

\* mm_free has merged a block into the free block before it, which is not the
\* head of the free list, the block after it being allocated
C25_Witness ==
  /\ pc = "idle" /\ op = "free" /\ unmaps = <<>>
  /\ Len(EFL) >= 2
  /\ \E i \in 2..Len(EFL) :
       /\ EFL[i] < arg
       /\ GET_SIZE(GET(mem, HDRP(arg))) >= 2 * OVERHEAD
       /\ arg + GET_SIZE(GET(mem, HDRP(arg))) = NEXT_BLKP(mem, EFL[i])
       /\ GET_ALLOC(GET(mem, HDRP(NEXT_BLKP(mem, EFL[i])))) = 1

(* ---------------- C26 ---------------- *)

\* extend has just returned from mapping a region: in mm_init, or in mm_malloc
\* before it re-enters itself
ExtendReturned ==
  /\ lastMap.adr # NULL
  /\ (pc = "idle" /\ op = "init") \/ pc = "malloc"

\* C26: right after an extend that mapped bytes bytes at r, the words at
\* r + 8 and r + 16 hold (OVERHEAD, 1), the word at r + bytes - 8 holds (0, 1),
\* the interior block's header at r + 24 and its footer at r + bytes - 16 both
\* hold (bytes - PAGEOVERHEAD, 0), and its payload r + PAGEOVERHEAD is the head
\* of the free list.
C26_RegionInitialised ==
  ExtendReturned =>
    LET r == lastMap.adr
        bytes == lastMap.bytes
    IN  /\ GET(mem, r + ALIGNMENT \div 2) = PACK(OVERHEAD, 1)
        /\ GET(mem, r + ALIGNMENT \div 2 + SIZEOF_WORD) = PACK(OVERHEAD, 1)
        /\ GET(mem, r + bytes - SIZEOF_WORD) = PACK(0, 1)
        /\ GET(mem, r + ALIGNMENT \div 2 + OVERHEAD) = PACK(bytes - PAGEOVERHEAD, 0)
        /\ GET(mem, r + bytes - 2 * SIZEOF_WORD) = PACK(bytes - PAGEOVERHEAD, 0)
        /\ nextFree = r + PAGEOVERHEAD

(* ---------------- C27 ---------------- *)

\* C27: after every public call returns, every block between the prologue and
\* the epilogue of a region, free or allocated, has a size that is a multiple
\* of 16 and at least 4 words, so the two link words of a free block lie before
\* its footer; only the prologue has size OVERHEAD and only the epilogue size 0.
C27_MinimumBlockSize ==
  Returned =>
    \A r \in regions :
      LET blocks == BlocksOf(mem, r) IN
      /\ GET(mem, HDRP(blocks[1])) = PACK(OVERHEAD, 1)
      /\ GET_SIZE(GET(mem, HDRP(WalkEnd(mem, r)))) = 0
      /\ WalkEnd(mem, r) = r.base + r.len
      /\ \A i \in 2..Len(blocks) :
           LET word == GET(mem, HDRP(blocks[i]))
               size == word - GET_ALLOC(word)
           IN  /\ size % 16 = 0
               /\ size >= 4 * SIZEOF_WORD
               /\ NextField(blocks[i]) + SIZEOF_WORD <= blocks[i] + size - OVERHEAD

\* a free block and an allocated block of exactly 4 words exist
C27_Witness ==
  /\ Returned
  /\ \E bp \in FreeBlocks : GET(mem, HDRP(bp)) = PACK(4 * SIZEOF_WORD, 0)
  /\ \E a \in live : GET(mem, HDRP(a.p)) = PACK(4 * SIZEOF_WORD, 1)

(* ---------------- C28 ---------------- *)

\* requests up to the largest size_t: two small ones; the one for which
\* n + OVERHEAD wraps to 0; and one whose page-aligned size times PAGERATIO wraps
WideRequests == {1, 20, SIZE_MAX - 15, (SIZE_MAX + 1) \div 2}

\* no payload handed out so far comes from a request whose aligned size wrapped
NoWrappedPayload == \A a \in live : SizeAlign(a.n) >= a.n + OVERHEAD

\* the client stops calling once it holds a payload of a wrapped request: the
\* heap is corrupt from there on
NextWide ==
  \/ mm_init /\ UNCHANGED hist
  \/ \E size \in WideRequests :
       NoWrappedPayload /\ MallocCall(size) /\ UNCHANGED hist
  \/ MallocRetry /\ UNCHANGED hist
  \/ \E bp \in {a.p : a \in live} :
       NoWrappedPayload /\ FreeCall(bp) /\ UNCHANGED hist

SpecWide == Init /\ [][NextWide]_vars

\* C28: for every n from 1 to the largest size_t, whenever mm_malloc(n)
\* returns a payload p, the block holding p has size - OVERHEAD >= n; the
\* aligned size never wraps below n + OVERHEAD and the map size
\* PAGERATIO * page_align(s) never wraps.
C28_SufficientCapacity ==
  /\ (pc = "idle" /\ op = "malloc" /\ arg >= 1 /\ ret # NULL) =>
       /\ GET_SIZE(GET(mem, HDRP(ret))) - OVERHEAD >= arg
       /\ SizeAlign(arg) >= arg + OVERHEAD
  /\ (op = "malloc" /\ arg >= 1 /\ nmaps >= 1) =>
       lastMap.bytes >= SizeAlign(arg)

(* ---------------- C29 ---------------- *)

\* the addresses of the words of the block of payload p that either memory holds
WordsOfBlock(m, m2, p) ==
  {addr \in (DOMAIN m) \cup (DOMAIN m2) :
     HDRP(p) <= addr /\ addr < HDRP(p) + GET_SIZE(GET(m, HDRP(p)))}

\* C29: between the return of mm_malloc for a payload p and the call
\* mm_free(p), no step of any call writes a word of p's block, header, footer
\* or payload, and p is never a node of the free list.
C29_LiveBlocksUntouched ==
  /\ [][\A a \in live \cap live' :
          \A addr \in WordsOfBlock(mem, mem', a.p) :
            GET(mem', addr) = GET(mem, addr)]_vars
  /\ [](LET list == EFL IN
        \A a \in live : \A i \in 1..Len(list) : list[i] # a.p)

\* mm_free has returned after freeing the blocks on both sides of an allocation
\* that is still live
C29_Witness ==
  /\ pc = "idle" /\ op = "free"
  /\ \E a \in live : \E r \in RegionOf(regions, a.p) :
       /\ Predecessor(mem, r, a.p) # Prologue(r)
       /\ FreeBit(mem, Predecessor(mem, r, a.p)) = 1
       /\ FreeBit(mem, NEXT_BLKP(mem, a.p)) = 1
       /\ arg \in {Predecessor(mem, r, a.p), NEXT_BLKP(mem, a.p)}

(* ---------------- C30 ---------------- *)

\* C30: every mem_unmap(base, len) call of mm_free names the base and length
\* of a region mapped earlier and not unmapped since; at that moment the region
\* holds no live allocation, and after mm_free returns neither the free-list
\* head nor a prev or next link of any free-list node points into it.
C30_UnmapSafety ==
  [][(IsFree /\ unmaps' # <<>>) =>
       LET calls == unmaps'
           m2 == mem'
           head == nextFree'
           new == ListFrom(m2, head, Cardinality(FreeBlocks) + 2)
       IN  /\ Len(calls) = 1
           /\ \A i \in 1..Len(calls) :
                LET u == {calls[i]} IN
                /\ u \subseteq regions
                /\ u \cap regions' = {}
                /\ \A a \in live' : RegionOf(u, a.p) = {}
                /\ RegionOf(u, head) = {}
                /\ \A k \in 1..Len(new) :
                     /\ RegionOf(u, new[k]) = {}
                     /\ RegionOf(u, GET(m2, PrevField(new[k]))) = {}
                     /\ RegionOf(u, GET(m2, NextField(new[k]))) = {}]_vars

\* mm_free has unmapped a region whose block was the head of a free list of
\* several nodes, while another allocation is live
C30_Witness ==
  /\ pc = "idle" /\ op = "free" /\ Len(unmaps) = 1
  /\ unmaps[1].base <= arg /\ arg < unmaps[1].base + unmaps[1].len
  /\ Len(EFL) >= 2
  /\ live # {}

====
